---------------------------- MODULE Spec2Model ----------------------------
(***************************************************************************)
(* Model of the stock symbol industry mapper: utils/data_processor.py      *)
(* (class IndustryMapper) as driven by main() of 1.py.                     *)
(*                                                                         *)
(* Text is modelled as Python models it: a str is a sequence of            *)
(* one-character strings, so that replace / split / strip / upper /        *)
(* startswith / slicing / join and f-string formatting are computed on     *)
(* characters.                                                             *)
(***************************************************************************)
EXTENDS Integers, Sequences, FiniteSets, TLC

VARIABLES
    dataset,            \* the three CSV files under attached_assets/
    mapper,             \* get_mapper's cache: << >>, or << the IndustryMapper >>
    load_error,         \* TRUE when the last get_mapper() raised and main() stopped
    stats,              \* main()'s local `stats`
    pc,                 \* position of the current run of main()
    symbols_input,      \* the text area's content handed to map_symbols
    clean_symbol_list,  \* map_symbols' local of that name
    mapped_symbols,     \* main()'s local: the matched mapping (an ordered dict)
    invalid_symbols,    \* main()'s local: the unmatched list
    symbol_list,        \* main()'s local: list(mapped_symbols.keys())
    error,              \* the exception the run's try block caught, or NoError
    categorized_output, \* main()'s local: format_tv_output's text
    flat_output,        \* main()'s local: format_flat_output's text
    fundamentals_df,    \* main()'s local: get_fundamentals_data's frame
    renormalized        \* clean_symbols of the comma-joined clean_symbol_list

vars == << dataset, mapper, load_error, stats, pc, symbols_input, clean_symbol_list,
           mapped_symbols, invalid_symbols, symbol_list, error, categorized_output, flat_output,
           fundamentals_df, renormalized >>

\* A local that is not bound yet holds the empty value of its type; pc tells
\* which locals are bound.
NoError == "NoError"
NoMapper == << >>
NoText == << >>
NoList == << >>
NoStats == [ total_symbols |-> 0, total_industries |-> 0, mapped_industries |-> 0 ]

(***************************************************************************)
(* Characters                                                              *)
(***************************************************************************)
LowerLetters == << "a","b","c","d","e","f","g","h","i","j","k","l","m",
                   "n","o","p","q","r","s","t","u","v","w","x","y","z" >>
UpperLetters == << "A","B","C","D","E","F","G","H","I","J","K","L","M",
                   "N","O","P","Q","R","S","T","U","V","W","X","Y","Z" >>
Digits == << "0","1","2","3","4","5","6","7","8","9" >>

Range(s) == { s[i] : i \in DOMAIN s }
IndexOf(s, c) == CHOOSE i \in DOMAIN s : s[i] = c

\* str.upper() on one character
UpperChar(c) ==
    IF c \in Range(LowerLetters) THEN UpperLetters[IndexOf(LowerLetters, c)] ELSE c

\* ord(c): the code point Python compares strings by
Ord(c) ==
    IF c \in Range(Digits) THEN 47 + IndexOf(Digits, c)
    ELSE IF c \in Range(UpperLetters) THEN 64 + IndexOf(UpperLetters, c)
    ELSE IF c \in Range(LowerLetters) THEN 96 + IndexOf(LowerLetters, c)
    ELSE CASE c = "\t" -> 9
           [] c = "\n" -> 10
           [] c = " "  -> 32
           [] c = "#"  -> 35
           [] c = "("  -> 40
           [] c = ")"  -> 41
           [] c = ","  -> 44
           [] c = "/"  -> 47
           [] c = ":"  -> 58
           [] c = ";"  -> 59

\* the characters str.strip() removes
Whitespace == { " ", "\t", "\n" }

(***************************************************************************)
(* str operations                                                          *)
(***************************************************************************)
\* s.replace(old, new) for one-character old and new
Replace(s, old, new) == [ i \in DOMAIN s |-> IF s[i] = old THEN new ELSE s[i] ]

\* s.upper()
Upper(s) == [ i \in DOMAIN s |-> UpperChar(s[i]) ]

\* s.strip()
Strip(s) ==
    LET keep == { i \in DOMAIN s : s[i] \notin Whitespace }
    IN  IF keep = {} THEN << >>
        ELSE LET lo == CHOOSE i \in keep : \A j \in keep : i <= j
                 hi == CHOOSE i \in keep : \A j \in keep : j <= i
             IN  SubSeq(s, lo, hi)

\* s.startswith(prefix)
StartsWith(s, prefix) ==
    /\ Len(s) >= Len(prefix)
    /\ SubSeq(s, 1, Len(prefix)) = prefix

\* s[n:]
DropFirst(s, n) == SubSeq(s, n + 1, Len(s))

\* s.split(sep) for a one-character sep: a left-to-right scan of s[lo..hi] that
\* carries the finished fields and the field being read. The range is scanned
\* in halves, left half first, which keeps the evaluation depth logarithmic
\* (TLC evaluates an argument when it is first used: the test on `left` makes
\* it evaluate the left half before it enters the right half).
RECURSIVE SplitScan(_, _, _, _, _)
SplitScan(s, sep, lo, hi, acc) ==
    IF lo > hi THEN acc
    ELSE IF lo = hi
         THEN IF s[lo] = sep
              THEN [ done |-> Append(acc.done, acc.cur), cur |-> << >> ]
              ELSE [ done |-> acc.done, cur |-> Append(acc.cur, s[lo]) ]
         ELSE LET mid == (lo + hi) \div 2
                  left == SplitScan(s, sep, lo, mid, acc)
              IN  IF left = left THEN SplitScan(s, sep, mid + 1, hi, left) ELSE left

Split(s, sep) ==
    LET r == SplitScan(s, sep, 1, Len(s), [ done |-> << >>, cur |-> << >> ])
    IN  Append(r.done, r.cur)

\* sep.join(parts): the parts in order, sep between neighbours
RECURSIVE JoinRange(_, _, _, _)
JoinRange(parts, sep, lo, hi) ==
    IF lo > hi THEN << >>
    ELSE IF lo = hi THEN parts[lo]
         ELSE LET mid == (lo + hi) \div 2
              IN  JoinRange(parts, sep, lo, mid) \o sep \o JoinRange(parts, sep, mid + 1, hi)

Join(sep, parts) == JoinRange(parts, sep, 1, Len(parts))

\* str(n) for n >= 0
RECURSIVE IntToStr(_)
IntToStr(n) ==
    IF n < 10 THEN << Digits[n + 1] >>
    ELSE Append(IntToStr(n \div 10), Digits[(n % 10) + 1])

\* a < b on str: lexicographic by code point, a proper prefix is smaller
RECURSIVE StrLess(_, _)
StrLess(a, b) ==
    IF b = << >> THEN FALSE
    ELSE IF a = << >> THEN TRUE
    ELSE IF Head(a) = Head(b) THEN StrLess(Tail(a), Tail(b))
    ELSE Ord(Head(a)) < Ord(Head(b))

\* sorted(xs) on a list of str: insertion of each element, in order, after the
\* elements that are not greater (a stable sort)
RECURSIVE InsertSorted(_, _)
InsertSorted(sorted, x) ==
    IF sorted = << >> THEN << x >>
    ELSE IF StrLess(x, Head(sorted)) THEN << x >> \o sorted
    ELSE << Head(sorted) >> \o InsertSorted(Tail(sorted), x)

RECURSIVE SortedStrs(_)
SortedStrs(xs) ==
    IF xs = << >> THEN << >>
    ELSE InsertSorted(SortedStrs(SubSeq(xs, 1, Len(xs) - 1)), xs[Len(xs)])


(***************************************************************************)
(* Python lists used as loops: for x in xs[lo..hi], in order, scanned in   *)
(* halves (left half first) to keep the evaluation depth logarithmic.      *)
(***************************************************************************)
\* seen = set(); [x for x in xs if not (x in seen or seen.add(x))]
RECURSIVE DedupScan(_, _, _, _)
DedupScan(xs, lo, hi, acc) ==
    IF lo > hi THEN acc
    ELSE IF lo = hi
         THEN IF xs[lo] \in acc.seen
              THEN acc
              ELSE [ out |-> Append(acc.out, xs[lo]), seen |-> acc.seen \cup { xs[lo] } ]
         ELSE LET mid == (lo + hi) \div 2
                  left == DedupScan(xs, lo, mid, acc)
              IN  IF left = left THEN DedupScan(xs, mid + 1, hi, left) ELSE left

\* the last occurrence kept where the first should be
RemoveDuplicatesKeepLast(xs) ==
    LET reversed == [ i \in DOMAIN xs |-> xs[Len(xs) + 1 - i] ]
        kept == DedupScan(reversed, 1, Len(reversed), [ out |-> << >>, seen |-> {} ]).out
    IN  [ i \in DOMAIN kept |-> kept[Len(kept) + 1 - i] ]

RemoveDuplicates(xs) == DedupScan(xs, 1, Len(xs), [ out |-> << >>, seen |-> {} ]).out

(***************************************************************************)
(* IndustryMapper.clean_symbols                                            *)
(***************************************************************************)
NSE_PREFIX == << "N", "S", "E", ":" >>
COMMA == << "," >>

\* the separators made equivalent to the comma
ReplaceSeparators(symbols) == Replace(Replace(symbols, "\n", ","), ";", ",")

\* the loop body for one field s that passed `if s.strip()`
CleanOne(s) ==
    LET clean_symbol == Upper(Strip(s))
    IN  IF StartsWith(clean_symbol, NSE_PREFIX)
        THEN DropFirst(clean_symbol, Len(NSE_PREFIX))
        ELSE clean_symbol

\* symbol_list before duplicates are removed
CleanFields(symbols) ==
    LET fields == SelectSeq(Split(ReplaceSeparators(symbols), ","),
                            LAMBDA s : Strip(s) # << >>)
    IN  [ i \in DOMAIN fields |-> CleanOne(fields[i]) ]

clean_symbols(symbols) == RemoveDuplicates(CleanFields(symbols))

(***************************************************************************)
(* IndustryMapper.__init__ / load_database                                 *)
(* A dataset is the content of the three CSV files: industry_csv (column 0 *)
(* of Industry Analytics.csv), mapping_csv (the 'Stock Name' and 'Basic    *)
(* Industry' columns of Basic RS Setup (4).csv) and results_csv (Results   *)
(* Calendar.csv), and `missing`, the files that are not there.             *)
(***************************************************************************)
\* sorted(industry_categories[0].unique())
AvailableIndustries(industry_csv) == SortedStrs(RemoveDuplicates(industry_csv))

\* the difference taken the wrong way round
invalid_industries_reversed(mapping_df, available_industries) ==
    Range(available_industries) \ { mapping_df[i].industry : i \in DOMAIN mapping_df }

\* set(self.mapping_df['industry']) - set(self.available_industries)
invalid_industries(mapping_df, available_industries) ==
    { mapping_df[i].industry : i \in DOMAIN mapping_df } \ Range(available_industries)

\* dict(zip(symbol.str.upper(), industry)): a later row replaces an earlier one
MappingDict(mapping_df) ==
    LET keys == { Upper(mapping_df[i].symbol) : i \in DOMAIN mapping_df }
        last(k) == CHOOSE i \in DOMAIN mapping_df :
                       /\ Upper(mapping_df[i].symbol) = k
                       /\ \A j \in DOMAIN mapping_df :
                              Upper(mapping_df[j].symbol) = k => j <= i
    IN  [ k \in keys |-> mapping_df[last(k)].industry ]

\* IndustryMapper(): the object when construction returns, the exception otherwise
IndustryMapper(ds) ==
    IF "industry_csv" \in ds.missing \/ "mapping_csv" \in ds.missing
    THEN [ raised |-> "Exception", object |-> NoMapper ]
    ELSE LET available_industries == AvailableIndustries(ds.industry_csv)
             mapping_df == ds.mapping_csv
         IN  IF invalid_industries(mapping_df, available_industries) # {}
             THEN [ raised |-> "Exception", object |-> NoMapper ]
             ELSE [ raised |-> NoError,
                    object |-> << [ available_industries |-> available_industries,
                                    mapping_df |-> mapping_df,
                                    mapping_dict |-> MappingDict(mapping_df) ] >> ]

(***************************************************************************)
(* IndustryMapper.map_symbols                                              *)
(***************************************************************************)
MAX_SYMBOLS == 999

\* the cap off by one: >= for >
TooManySymbolsOffByOne(clean_list) == Len(clean_list) >= MAX_SYMBOLS

\* the condition of the ValueError
TooManySymbols(clean_list) == Len(clean_list) > MAX_SYMBOLS

\* for symbol in clean_symbol_list: ... (a dict is its items in insertion order)
RECURSIVE MapScan(_, _, _, _, _)
MapScan(mapping_dict, xs, lo, hi, acc) ==
    IF lo > hi THEN acc
    ELSE IF lo = hi
         THEN IF xs[lo] \in DOMAIN mapping_dict
              THEN [ mapped_symbols |->
                         IF \E i \in DOMAIN acc.mapped_symbols :
                                acc.mapped_symbols[i].symbol = xs[lo]
                         THEN [ i \in DOMAIN acc.mapped_symbols |->
                                  IF acc.mapped_symbols[i].symbol = xs[lo]
                                  THEN [ symbol |-> xs[lo], industry |-> mapping_dict[xs[lo]] ]
                                  ELSE acc.mapped_symbols[i] ]
                         ELSE Append(acc.mapped_symbols,
                                     [ symbol |-> xs[lo], industry |-> mapping_dict[xs[lo]] ]),
                     invalid_symbols |-> acc.invalid_symbols ]
              ELSE [ mapped_symbols |-> acc.mapped_symbols,
                     invalid_symbols |-> Append(acc.invalid_symbols, xs[lo]) ]
         ELSE LET mid == (lo + hi) \div 2
                  left == MapScan(mapping_dict, xs, lo, mid, acc)
              IN  IF left = left THEN MapScan(mapping_dict, xs, mid + 1, hi, left) ELSE left

\* invalid_symbols.insert(0, symbol) for invalid_symbols.append(symbol)
MapLoopNewestFirst(mapping_dict, clean_list) ==
    LET r == MapScan(mapping_dict, clean_list, 1, Len(clean_list),
                     [ mapped_symbols |-> << >>, invalid_symbols |-> << >> ])
    IN  [ r EXCEPT !.invalid_symbols =
              [ i \in DOMAIN r.invalid_symbols |->
                  r.invalid_symbols[Len(r.invalid_symbols) + 1 - i] ] ]

\* the loop of map_symbols over an accepted list
MapLoop(mapping_dict, clean_list) ==
    MapScan(mapping_dict, clean_list, 1, Len(clean_list),
            [ mapped_symbols |-> << >>, invalid_symbols |-> << >> ])

\* map_symbols remembering the symbols it did not find, as keys of mapping_dict
map_symbols_caching(self, symbols) ==
    LET clean_list == clean_symbols(symbols)
    IN  IF TooManySymbols(clean_list)
        THEN [ raised |-> "ValueError", clean_symbol_list |-> clean_list,
               mapped_symbols |-> NoList, invalid_symbols |-> NoList, self |-> self ]
        ELSE LET r == MapLoop(self.mapping_dict, clean_list)
                 known == DOMAIN self.mapping_dict
             IN  [ raised |-> NoError, clean_symbol_list |-> clean_list,
                   mapped_symbols |-> r.mapped_symbols,
                   invalid_symbols |-> r.invalid_symbols,
                   self |-> [ self EXCEPT !.mapping_dict =
                                [ k \in known \cup Range(r.invalid_symbols) |->
                                    IF k \in known THEN self.mapping_dict[k]
                                    ELSE << "U", "n", "k", "n", "o", "w", "n" >> ] ] ]

map_symbols(self, symbols) ==
    LET clean_list == clean_symbols(symbols)
    IN  IF TooManySymbols(clean_list)
        THEN [ raised |-> "ValueError", clean_symbol_list |-> clean_list,
               mapped_symbols |-> NoList, invalid_symbols |-> NoList, self |-> self ]
        ELSE LET r == MapLoop(self.mapping_dict, clean_list)
             IN  [ raised |-> NoError, clean_symbol_list |-> clean_list,
                   mapped_symbols |-> r.mapped_symbols,
                   invalid_symbols |-> r.invalid_symbols, self |-> self ]

(***************************************************************************)
(* IndustryMapper.format_tv_output / format_flat_output                    *)
(***************************************************************************)
\* industry_groups[industry].append(symbol) for the items in insertion order:
\* a defaultdict(list), kept as its items in the order the keys were created
RECURSIVE IndustryGroups(_)
IndustryGroups(items) ==
    IF items = << >> THEN << >>
    ELSE LET groups == IndustryGroups(SubSeq(items, 1, Len(items) - 1))
             item == items[Len(items)]
         IN  IF \E g \in DOMAIN groups : groups[g].industry = item.industry
             THEN [ g \in DOMAIN groups |->
                      IF groups[g].industry = item.industry
                      THEN [ industry |-> item.industry,
                             symbols |-> Append(groups[g].symbols, item.symbol) ]
                      ELSE groups[g] ]
             ELSE Append(groups, [ industry |-> item.industry, symbols |-> << item.symbol >> ])

\* sorted(groups, key=lambda x: len(x[1]), reverse=True): stable, so a group goes
\* after every group placed before it that is not smaller
\* an unstable sort: a group goes before the groups of its own size
RECURSIVE InsertBySizeUnstable(_, _)
InsertBySizeUnstable(sorted, g) ==
    IF sorted = << >> THEN << g >>
    ELSE IF Len(Head(sorted).symbols) <= Len(g.symbols) THEN << g >> \o sorted
    ELSE << Head(sorted) >> \o InsertBySizeUnstable(Tail(sorted), g)

RECURSIVE InsertBySize(_, _)
InsertBySize(sorted, g) ==
    IF sorted = << >> THEN << g >>
    ELSE IF Len(Head(sorted).symbols) < Len(g.symbols) THEN << g >> \o sorted
    ELSE << Head(sorted) >> \o InsertBySize(Tail(sorted), g)

RECURSIVE SortedIndustries(_)
SortedIndustries(groups) ==
    IF groups = << >> THEN << >>
    ELSE InsertBySize(SortedIndustries(SubSeq(groups, 1, Len(groups) - 1)),
                      groups[Len(groups)])

\* sorted() left out
NseSymbolsUnsorted(symbols) == [ i \in DOMAIN symbols |-> NSE_PREFIX \o symbols[i] ]

\* [f"NSE:{symbol}" for symbol in sorted(symbols)]
NseSymbols(symbols) ==
    LET sorted == SortedStrs(symbols)
    IN  [ i \in DOMAIN sorted |-> NSE_PREFIX \o sorted[i] ]

\* f"###{industry}({symbol_count}),{','.join(nse_symbols)}"
FormattedLine(g) ==
    << "#", "#", "#" >> \o g.industry \o << "(" >> \o IntToStr(Len(g.symbols))
        \o << ")" >> \o COMMA \o Join(COMMA, NseSymbols(g.symbols))

format_tv_output(mapped) ==
    LET sorted_industries == SortedIndustries(IndustryGroups(mapped))
    IN  Join(COMMA, [ i \in DOMAIN sorted_industries |-> FormattedLine(sorted_industries[i]) ])

\* mapped_symbols.keys()
Keys(mapped) == [ i \in DOMAIN mapped |-> mapped[i].symbol ]

format_flat_output(mapped) == Join(COMMA, NseSymbols(Keys(mapped)))

(***************************************************************************)
(* IndustryMapper.get_database_stats                                       *)
(***************************************************************************)
get_database_stats(self) ==
    [ total_symbols |-> Len(self.mapping_df),
      total_industries |-> Len(self.available_industries),
      mapped_industries |->
          Cardinality({ self.mapping_df[i].industry : i \in DOMAIN self.mapping_df }) ]

(***************************************************************************)
(* IndustryMapper.get_fundamentals_data                                    *)
(* A row of Results Calendar.csv is [name, date]: its 'Stock Name' and     *)
(* 'Quarterly Results Date' cells (the percentage columns are carried      *)
(* through untouched and are left out). A row of the returned frame is     *)
(* [index, Symbol, Results_Date]: the frame keeps the index of the file's  *)
(* row.                                                                    *)
(***************************************************************************)
MonthAbbr == << << "J","a","n" >>, << "F","e","b" >>, << "M","a","r" >>, << "A","p","r" >>,
                << "M","a","y" >>, << "J","u","n" >>, << "J","u","l" >>, << "A","u","g" >>,
                << "S","e","p" >>, << "O","c","t" >>, << "N","o","v" >>, << "D","e","c" >> >>

IsDigits(s) == s # << >> /\ \A i \in DOMAIN s : s[i] \in Range(Digits)

RECURSIVE StrToInt(_)
StrToInt(s) ==
    IF s = << >> THEN 0
    ELSE 10 * StrToInt(SubSeq(s, 1, Len(s) - 1)) + (IndexOf(Digits, s[Len(s)]) - 1)

IsLeap(y) == (y % 4 = 0 /\ y % 100 # 0) \/ y % 400 = 0

DaysInMonth(m, y) ==
    IF m = 2 THEN (IF IsLeap(y) THEN 29 ELSE 28)
    ELSE IF m \in { 4, 6, 9, 11 } THEN 30 ELSE 31

\* pd.to_datetime(text, format='%d/%m/%Y') on one cell: the date, or a failure
ParseDate(text) ==
    LET f == Split(text, "/")
    IN  IF /\ Len(f) = 3
           /\ \A i \in 1..3 : IsDigits(f[i])
           /\ Len(f[1]) <= 2 /\ Len(f[2]) <= 2 /\ Len(f[3]) = 4
           /\ StrToInt(f[2]) \in 1..12
           /\ StrToInt(f[1]) \in 1..DaysInMonth(StrToInt(f[2]), StrToInt(f[3]))
           /\ StrToInt(f[3]) \in 1678..2261
        THEN [ ok |-> TRUE, d |-> StrToInt(f[1]), m |-> StrToInt(f[2]), y |-> StrToInt(f[3]) ]
        ELSE [ ok |-> FALSE, d |-> 0, m |-> 0, y |-> 0 ]

\* .dt.strftime('%d %b %Y')
FormatDate(t) ==
    (IF t.d < 10 THEN << "0" >> ELSE << >>) \o IntToStr(t.d) \o << " " >>
        \o MonthAbbr[t.m] \o << " " >> \o IntToStr(t.y)

\* .str.upper() left out
UpperNamesAsStored(results_csv) ==
    [ i \in DOMAIN results_csv |->
        [ index |-> i, name |-> results_csv[i].name, date |-> results_csv[i].date ] ]

\* results_df['Stock Name'].str.upper()
UpperNames(results_csv) ==
    [ i \in DOMAIN results_csv |->
        [ index |-> i, name |-> Upper(results_csv[i].name), date |-> results_csv[i].date ] ]

\* [symbol.upper() for symbol in symbols]
UpperSymbols(symbols) == [ i \in DOMAIN symbols |-> Upper(symbols[i]) ]

\* results_df[results_df['Stock Name'].isin(symbols)]
FilterRows(results_df, symbols) ==
    SelectSeq(results_df, LAMBDA row : row.name \in Range(symbols))

\* the inner try: the whole 'Results Date' column is converted, or none of it
ConvertDates(filtered_df) ==
    IF \A i \in DOMAIN filtered_df : ParseDate(filtered_df[i].Results_Date).ok
    THEN [ i \in DOMAIN filtered_df |->
             [ filtered_df[i] EXCEPT !.Results_Date = FormatDate(ParseDate(@)) ] ]
    ELSE filtered_df

get_fundamentals_data(symbols, results_csv, found) ==
    IF ~found
    THEN [ raised |-> NoError, printed |-> TRUE, rows |-> << >> ]
    ELSE LET filtered_df == FilterRows(UpperNames(results_csv), UpperSymbols(symbols))
             renamed == [ i \in DOMAIN filtered_df |->
                            [ index |-> filtered_df[i].index,
                              Symbol |-> filtered_df[i].name,
                              Results_Date |-> filtered_df[i].date ] ]
         IN  IF filtered_df = << >>
             THEN [ raised |-> NoError, printed |-> FALSE, rows |-> << >> ]
             ELSE [ raised |-> NoError, printed |-> FALSE, rows |-> ConvertDates(renamed) ]

(***************************************************************************)
(* Text literals                                                           *)
(***************************************************************************)
TCS == << "T", "C", "S" >>
INFY == << "I", "N", "F", "Y" >>
HDFC == << "H", "D", "F", "C" >>
SBIN == << "S", "B", "I", "N" >>
CIPLA == << "C", "I", "P", "L", "A" >>
XYZ == << "X", "Y", "Z" >>
WIPRO == << "W", "I", "P", "R", "O" >>
tcs_lower == << "t", "c", "s" >>
infy_lower == << "i", "n", "f", "y" >>
Tcs_mixed == << "T", "c", "s" >>
IT == << "I", "T" >>
Banks == << "B", "a", "n", "k", "s" >>
Pharma == << "P", "h", "a", "r", "m", "a" >>
nse_infy == << "n", "s", "e", ":", "i", "n", "f", "y" >>
SBIN_padded == << " ", "S", "B", "I", "N", " " >>
NSE_Tcs == << "N", "S", "E", ":", "T", "c", "s" >>
NSE_NSE_TCS == << "N", "S", "E", ":", "N", "S", "E", ":", "T", "C", "S" >>
NSE_space_TCS == << "N", "S", "E", ":", " ", "T", "C", "S" >>
IN_FY == << "I", "N", " ", "F", "Y" >>
Date_5_Mar == << "0", "5", "/", "0", "3", "/", "2", "0", "2", "4" >>
Date_31_Feb == << "3", "1", "/", "0", "2", "/", "2", "0", "2", "4" >>
Date_12_Nov == << "1", "2", "/", "1", "1", "/", "2", "0", "2", "3" >>
Date_1_Jul == << "1", "/", "7", "/", "2", "0", "2", "4" >>
Date_NA == << "N", "/", "A" >>

(***************************************************************************)
(* The files the model is run on                                           *)
(***************************************************************************)
Row(symbol, industry) == [ symbol |-> symbol, industry |-> industry ]
Result(name, date) == [ name |-> name, date |-> date ]

ResultsA == << Result(tcs_lower, Date_5_Mar), Result(INFY, Date_31_Feb),
               Result(WIPRO, Date_12_Nov), Result(HDFC, Date_1_Jul),
               Result(Tcs_mixed, Date_12_Nov) >>
ResultsB == << Result(TCS, Date_5_Mar), Result(infy_lower, Date_1_Jul),
               Result(WIPRO, Date_NA) >>

Datasets ==
    { \* every label catalogued; the catalog unsorted and with a repeated label
      [ industry_csv |-> << Pharma, IT, Banks, IT >>,
        mapping_csv |-> << Row(tcs_lower, IT), Row(INFY, IT), Row(HDFC, Banks),
                           Row(SBIN, Banks), Row(CIPLA, Pharma) >>,
        results_csv |-> ResultsA, missing |-> {} ],
      \* a symbol listed twice; no results calendar file
      [ industry_csv |-> << Banks, IT, Pharma >>,
        mapping_csv |-> << Row(TCS, IT), Row(HDFC, Banks), Row(TCS, Pharma) >>,
        results_csv |-> << >>, missing |-> { "results_csv" } ],
      \* fewer industries mapped than catalogued
      [ industry_csv |-> << IT, Banks, Pharma >>,
        mapping_csv |-> << Row(TCS, IT), Row(INFY, IT) >>,
        results_csv |-> ResultsB, missing |-> {} ],
      \* the label Pharma is mapped and not catalogued
      [ industry_csv |-> << IT, Banks >>,
        mapping_csv |-> << Row(TCS, IT), Row(HDFC, Banks), Row(CIPLA, Pharma) >>,
        results_csv |-> ResultsA, missing |-> {} ],
      \* no industry catalog file
      [ industry_csv |-> << >>,
        mapping_csv |-> << Row(TCS, IT) >>,
        results_csv |-> ResultsA, missing |-> { "industry_csv" } ] }

(***************************************************************************)
(* The texts typed into the text area                                      *)
(***************************************************************************)
MaxTokens == 3

\* the sequences over S of length 0..n
SeqsUpTo(S, n) == UNION { [ 1..k -> S ] : k \in 0..n }

Separators == { << "," >>, << ";" >>, << "\n" >> }
Tokens == { TCS, nse_infy, HDFC, SBIN_padded, XYZ }

SmallInputs == { Join(sep, ts) : sep \in Separators, ts \in SeqsUpTo(Tokens, MaxTokens) }

\* n distinct two-character symbols, none of them in a mapping file
BulkAlphabet == UpperLetters \o Digits
BulkSymbol(i) == << BulkAlphabet[((i - 1) \div Len(BulkAlphabet)) + 1],
                    BulkAlphabet[((i - 1) % Len(BulkAlphabet)) + 1] >>
BulkText(n) == Join(COMMA, [ i \in 1..n |-> BulkSymbol(i) ])

BulkInputs ==
    { BulkText(MAX_SYMBOLS),                                 \* 999 distinct
      BulkText(MAX_SYMBOLS + 1),                             \* 1000 distinct
      BulkText(MAX_SYMBOLS) \o COMMA \o BulkSymbol(1),       \* 1000 fields, 999 distinct
      BulkText(MAX_SYMBOLS + 1) \o COMMA \o BulkSymbol(2) }  \* 1001 fields, 1000 distinct

Inputs == SmallInputs \cup BulkInputs

(***************************************************************************)
(* main(): one run of the script per interaction. get_mapper() is          *)
(* st.cache_resource: the mapper outlives the run, the locals do not.      *)
(***************************************************************************)
Locals == << stats, symbols_input, clean_symbol_list, mapped_symbols, invalid_symbols,
             symbol_list, error, categorized_output, flat_output, fundamentals_df >>

Init ==
    /\ dataset \in Datasets
    /\ mapper = NoMapper
    /\ load_error = FALSE
    /\ pc = "start"
    /\ stats = NoStats
    /\ symbols_input = NoText
    /\ clean_symbol_list = NoList
    /\ mapped_symbols = NoList
    /\ invalid_symbols = NoList
    /\ symbol_list = NoList
    /\ error = NoError
    /\ categorized_output = NoText
    /\ flat_output = NoText
    /\ fundamentals_df = NoList
    /\ renormalized = NoList

\* mapper = get_mapper(): the cached object, or a construction; an exception is
\* not cached, is reported, and st.stop() ends the run
GetMapper ==
    /\ pc = "start"
    /\ LET r == IF mapper # NoMapper
                THEN [ raised |-> NoError, object |-> mapper ]
                ELSE IndustryMapper(dataset)
       IN  /\ mapper' = r.object
           /\ load_error' = (r.raised # NoError)
           /\ pc' = IF r.raised = NoError THEN "loaded" ELSE "stopped"
    /\ UNCHANGED << dataset, Locals, renormalized >>

\* stats = mapper.get_database_stats(), and the form is shown
GetDatabaseStats ==
    /\ pc = "loaded"
    /\ stats' = get_database_stats(mapper[1])
    /\ pc' = "form"
    /\ UNCHANGED << dataset, mapper, load_error, symbols_input, clean_symbol_list,
                    mapped_symbols, invalid_symbols, symbol_list, error, categorized_output,
                    flat_output, fundamentals_df, renormalized >>

\* the button pressed on a blank text area: "Please enter some symbols", return
BlankInput ==
    /\ pc = "form"
    /\ \E raw \in Inputs :
           /\ Strip(raw) = << >>
           /\ symbols_input' = raw
    /\ error' = "BlankInput"
    /\ pc' = "done"
    /\ UNCHANGED << dataset, mapper, load_error, stats, clean_symbol_list, mapped_symbols,
                    invalid_symbols, symbol_list, categorized_output, flat_output, fundamentals_df,
                    renormalized >>

\* mapped_symbols, invalid_symbols = mapper.map_symbols(symbols_input); a ValueError
\* is caught by main() and shown, and nothing else of the run happens
MapSymbols ==
    /\ pc = "form"
    /\ \E raw \in Inputs :
           /\ Strip(raw) # << >>
           /\ LET r == map_symbols(mapper[1], raw)
              IN  /\ symbols_input' = raw
                  /\ mapper' = << r.self >>
                  /\ clean_symbol_list' = r.clean_symbol_list
                  /\ mapped_symbols' = r.mapped_symbols
                  /\ invalid_symbols' = r.invalid_symbols
                  /\ symbol_list' = Keys(r.mapped_symbols)
                  /\ error' = r.raised
                  /\ pc' = IF r.raised = NoError THEN "mapped" ELSE "done"
    /\ UNCHANGED << dataset, load_error, stats, categorized_output, flat_output,
                    fundamentals_df, renormalized >>

\* categorized_output = mapper.format_tv_output(mapped_symbols), under `if mapped_symbols`
FormatTvOutput ==
    /\ pc = "mapped"
    /\ mapped_symbols # << >>
    /\ categorized_output' = format_tv_output(mapped_symbols)
    /\ pc' = "tv"
    /\ UNCHANGED << dataset, mapper, load_error, stats, symbols_input, clean_symbol_list,
                    mapped_symbols, invalid_symbols, symbol_list, error, flat_output, fundamentals_df,
                    renormalized >>

\* flat_output = mapper.format_flat_output(mapped_symbols)
FormatFlatOutput ==
    /\ pc = "tv"
    /\ flat_output' = format_flat_output(mapped_symbols)
    /\ pc' = "flat"
    /\ UNCHANGED << dataset, mapper, load_error, stats, symbols_input, clean_symbol_list,
                    mapped_symbols, invalid_symbols, symbol_list, error, categorized_output,
                    fundamentals_df, renormalized >>

\* fundamentals_df = mapper.get_fundamentals_data(symbol_list), when the box is ticked
GetFundamentalsData ==
    /\ pc = "flat"
    /\ LET r == get_fundamentals_data(symbol_list, dataset.results_csv,
                                       "results_csv" \notin dataset.missing)
       IN  /\ fundamentals_df' = r.rows
           /\ error' = r.raised
    /\ pc' = "done"
    /\ UNCHANGED << dataset, mapper, load_error, stats, symbols_input, clean_symbol_list,
                    mapped_symbols, invalid_symbols, symbol_list, categorized_output, flat_output,
                    renormalized >>

\* the run ends (nothing matched, the box not ticked, all shown, or stopped) and
\* the next interaction runs the script again with fresh locals
Rerun ==
    /\ \/ pc \in { "flat", "done", "stopped" }
       \/ pc = "mapped" /\ mapped_symbols = NoList
    /\ pc' = "start"
    /\ stats' = NoStats
    /\ symbols_input' = NoText
    /\ clean_symbol_list' = NoList
    /\ mapped_symbols' = NoList
    /\ invalid_symbols' = NoList
    /\ symbol_list' = NoList
    /\ error' = NoError
    /\ categorized_output' = NoText
    /\ flat_output' = NoText
    /\ fundamentals_df' = NoList
    /\ UNCHANGED << dataset, mapper, load_error, renormalized >>

Next ==
    \/ GetMapper
    \/ GetDatabaseStats
    \/ BlankInput
    \/ MapSymbols
    \/ FormatTvOutput
    \/ FormatFlatOutput
    \/ GetFundamentalsData
    \/ Rerun

Spec == Init /\ [][Next]_vars

(***************************************************************************)
(* The normalizer on its own: clean_symbols applied to a text, and applied *)
(* again to its own output joined with commas.                             *)
(***************************************************************************)
MaxNormTokens == 3

NoFiles == [ industry_csv |-> << >>, mapping_csv |-> << >>, results_csv |-> << >>,
             missing |-> { "industry_csv", "mapping_csv", "results_csv" } ]

NormSeparators == { << "," >>, << ";" >>, << "\n" >>, << ",", " " >> }
NormTokens == { TCS, tcs_lower, HDFC, NSE_Tcs, NSE_NSE_TCS, NSE_space_TCS, NSE_PREFIX,
                IN_FY, << >>, << " " >>, << "\t", "T", "C", "S", " " >> }

NormInputs ==
    { Join(sep, ts) : sep \in NormSeparators, ts \in SeqsUpTo(NormTokens, MaxNormTokens) }

Idle ==
    /\ mapper = NoMapper
    /\ load_error = FALSE
    /\ stats = NoStats
    /\ error = NoError

NormInit ==
    /\ Idle
    /\ dataset = NoFiles
    /\ pc = "norm"
    /\ symbols_input \in NormInputs
    /\ clean_symbol_list = NoList
    /\ renormalized = NoList
    /\ mapped_symbols = NoList
    /\ invalid_symbols = NoList
    /\ symbol_list = NoList
    /\ categorized_output = NoText
    /\ flat_output = NoText
    /\ fundamentals_df = NoList

CleanSymbols ==
    /\ pc = "norm"
    /\ clean_symbol_list' = clean_symbols(symbols_input)
    /\ pc' = "cleaned"
    /\ UNCHANGED << dataset, mapper, load_error, stats, symbols_input, mapped_symbols,
                    invalid_symbols, symbol_list, error, categorized_output, flat_output,
                    fundamentals_df, renormalized >>

CleanSymbolsAgain ==
    /\ pc = "cleaned"
    /\ renormalized' = clean_symbols(Join(COMMA, clean_symbol_list))
    /\ pc' = "recleaned"
    /\ UNCHANGED << dataset, mapper, load_error, stats, symbols_input, clean_symbol_list,
                    mapped_symbols, invalid_symbols, symbol_list, error, categorized_output,
                    flat_output, fundamentals_df >>

NormNext == CleanSymbols \/ CleanSymbolsAgain

SpecNorm == NormInit /\ [][NormNext]_vars

(***************************************************************************)
(* The formatters on their own: both applied to a matched mapping, a dict  *)
(* of distinct symbols in some insertion order.                            *)
(***************************************************************************)
MaxEntries == 3

FormatSymbols == { TCS, INFY, HDFC, SBIN, CIPLA }
FormatIndustries == { IT, Banks, Pharma }

Mappings ==
    { m \in SeqsUpTo([ symbol : FormatSymbols, industry : FormatIndustries ], MaxEntries) :
        \A i, j \in DOMAIN m : m[i].symbol = m[j].symbol => i = j }

FormatInit ==
    /\ Idle
    /\ dataset = NoFiles
    /\ pc = "format"
    /\ mapped_symbols \in Mappings
    /\ symbols_input = NoText
    /\ clean_symbol_list = NoList
    /\ renormalized = NoList
    /\ invalid_symbols = NoList
    /\ symbol_list = NoList
    /\ categorized_output = NoText
    /\ flat_output = NoText
    /\ fundamentals_df = NoList

CallFormatTv ==
    /\ pc = "format"
    /\ categorized_output' = format_tv_output(mapped_symbols)
    /\ pc' = "grouped"
    /\ UNCHANGED << dataset, mapper, load_error, stats, symbols_input, clean_symbol_list,
                    mapped_symbols, invalid_symbols, symbol_list, error, flat_output,
                    fundamentals_df, renormalized >>

CallFormatFlat ==
    /\ pc = "grouped"
    /\ flat_output' = format_flat_output(mapped_symbols)
    /\ pc' = "formatted"
    /\ UNCHANGED << dataset, mapper, load_error, stats, symbols_input, clean_symbol_list,
                    mapped_symbols, invalid_symbols, symbol_list, error, categorized_output,
                    fundamentals_df, renormalized >>

FormatNext == CallFormatTv \/ CallFormatFlat

SpecFormat == FormatInit /\ [][FormatNext]_vars

(***************************************************************************)
(* The fundamentals join on its own: any requested list, any results file. *)
(***************************************************************************)
MaxRequested == 3

RequestedSymbols == { TCS, tcs_lower, INFY, WIPRO, XYZ }

FundInit ==
    /\ Idle
    /\ dataset \in Datasets
    /\ pc = "fundamentals"
    /\ symbol_list \in SeqsUpTo(RequestedSymbols, MaxRequested)
    /\ symbols_input = NoText
    /\ clean_symbol_list = NoList
    /\ renormalized = NoList
    /\ mapped_symbols = NoList
    /\ invalid_symbols = NoList
    /\ categorized_output = NoText
    /\ flat_output = NoText
    /\ fundamentals_df = NoList

CallGetFundamentals ==
    /\ pc = "fundamentals"
    /\ LET r == get_fundamentals_data(symbol_list, dataset.results_csv,
                                      "results_csv" \notin dataset.missing)
       IN  /\ fundamentals_df' = r.rows
           /\ error' = r.raised
    /\ pc' = "joined"
    /\ UNCHANGED << dataset, mapper, load_error, stats, symbols_input, clean_symbol_list,
                    mapped_symbols, invalid_symbols, symbol_list, categorized_output,
                    flat_output, renormalized >>

FundNext == CallGetFundamentals

SpecFund == FundInit /\ [][FundNext]_vars

(***************************************************************************)
(* Properties                                                              *)
(***************************************************************************)
\* the run is past map_symbols (accepted or rejected)
AfterMapSymbols == pc \in { "mapped", "tv", "flat", "done" } /\ error # "BlankInput"
\* the run is past a map_symbols that returned
Accepted == AfterMapSymbols /\ error = NoError

Occurrences(xs, x) == Cardinality({ i \in DOMAIN xs : xs[i] = x })

\* C1: for an accepted text the matched mapping and the unmatched list partition
\* the normalized sequence: each normalized symbol is in exactly one of the two,
\* once, in matched (with the table's industry) iff it is a key of the table;
\* the lengths add up; both keep the order of the normalized sequence.
C1_Partition ==
    Accepted =>
        LET normalized == clean_symbols(symbols_input)
            table == mapper[1].mapping_dict
            matched == Keys(mapped_symbols)
        IN  /\ Len(mapped_symbols) + Len(invalid_symbols) = Len(normalized)
            /\ \A i \in DOMAIN normalized :
                   /\ Occurrences(matched, normalized[i])
                          + Occurrences(invalid_symbols, normalized[i]) = 1
                   /\ Occurrences(matched, normalized[i]) = 1
                          <=> normalized[i] \in DOMAIN table
            /\ \A i \in DOMAIN mapped_symbols :
                   mapped_symbols[i].industry = table[mapped_symbols[i].symbol]
            /\ matched = SelectSeq(normalized, LAMBDA x : x \in DOMAIN table)
            /\ invalid_symbols = SelectSeq(normalized, LAMBDA x : x \notin DOMAIN table)

C1_Witness ==
    /\ Accepted
    /\ Len(mapped_symbols) >= 1
    /\ Len(invalid_symbols) >= 2

\* C2: map_symbols raises ValueError exactly when the normalized, deduplicated
\* sequence has more than 999 entries, and a rejected request produces nothing:
\* no matched mapping, no unmatched list, no formatted text, no fundamentals.
C2_BatchCap ==
    AfterMapSymbols =>
        LET n == Len(clean_symbols(symbols_input))
        IN  /\ error = "ValueError" <=> n > 999
            /\ n <= 999 => error = NoError
            /\ error = "ValueError" =>
                   /\ pc = "done"
                   /\ mapped_symbols = NoList /\ invalid_symbols = NoList
                   /\ symbol_list = NoList
                   /\ categorized_output = NoText /\ flat_output = NoText
                   /\ fundamentals_df = NoList

\* 1001 fields of which 1000 are distinct: rejected on the deduplicated count
C2_Witness ==
    /\ AfterMapSymbols
    /\ error = "ValueError"
    /\ Len(Split(symbols_input, ",")) = 1001
    /\ Len(clean_symbol_list) = 1000

\* the labels of the mapping file that the catalog file does not hold
Uncatalogued(ds) ==
    { ds.mapping_csv[i].industry : i \in DOMAIN ds.mapping_csv } \ Range(ds.industry_csv)

\* C3: construction ends ready or failed and nothing in between: with a label of
\* the mapping source absent from the catalog source there is never a mapper and
\* the run never gets past get_mapper; a mapper that exists holds the whole
\* dataset, and every industry of its symbol table is in its catalog.
C3_LoadValidation ==
    /\ Uncatalogued(dataset) # {} =>
           /\ mapper = NoMapper
           /\ pc \in { "start", "stopped" }
           /\ pc = "stopped" => load_error
    /\ pc \notin { "start", "stopped" } => mapper # NoMapper /\ ~load_error
    /\ mapper # NoMapper =>
           /\ Len(mapper) = 1
           /\ Range(mapper[1].available_industries) = Range(dataset.industry_csv)
           /\ mapper[1].mapping_df = dataset.mapping_csv
           /\ DOMAIN mapper[1].mapping_dict
                  = { Upper(dataset.mapping_csv[i].symbol) : i \in DOMAIN dataset.mapping_csv }
           /\ \A k \in DOMAIN mapper[1].mapping_dict :
                  mapper[1].mapping_dict[k] \in Range(mapper[1].available_industries)

\* the catalog file is there, one mapped label is not in it, and the run stopped
C3_Witness ==
    /\ dataset.missing = {}
    /\ Uncatalogued(dataset) # {}
    /\ pc = "stopped"
    /\ load_error
    /\ mapper = NoMapper

\* C10: once there is a mapper no step changes it (symbol table, mapping rows,
\* catalog) or the files, and what map_symbols yields for a text is what a
\* freshly built mapper yields for it, whatever ran before.
C10_ReadOnly ==
    [][ /\ dataset' = dataset
        /\ mapper # NoMapper => mapper' = mapper
        /\ (pc = "form" /\ AfterMapSymbols') =>
               LET fresh == map_symbols(IndustryMapper(dataset).object[1], symbols_input')
               IN  /\ error' = fresh.raised
                   /\ mapped_symbols' = fresh.mapped_symbols
                   /\ invalid_symbols' = fresh.invalid_symbols ]_vars

\* a request was rejected for its size and the mapper is as it was built
C10_Witness ==
    /\ AfterMapSymbols
    /\ error = "ValueError"
    /\ mapper = IndustryMapper(dataset).object

\* clean_symbols has returned
Cleaned == pc \in { "cleaned", "recleaned" }

\* xs without the occurrences after the first of each value, told by positions:
\* position i stays iff no earlier position holds the same value, and the k-th
\* position that stays gives the k-th element
IsFirst(xs, i) == \A j \in 1..(i - 1) : xs[j] # xs[i]
IsFirstOccurrences(out, xs) ==
    LET first == { i \in DOMAIN xs : IsFirst(xs, i) }
    IN  /\ Len(out) = Cardinality(first)
        /\ \A i \in first : out[Cardinality({ j \in first : j <= i })] = xs[i]

\* C6: the output of clean_symbols has no duplicates and is the canonicalized
\* tokens with every occurrence after the first removed, nothing moved.
C6_FirstOccurrenceOrder ==
    Cleaned =>
        /\ \A i, j \in DOMAIN clean_symbol_list :
               clean_symbol_list[i] = clean_symbol_list[j] => i = j
        /\ IsFirstOccurrences(clean_symbol_list, CleanFields(symbols_input))

\* "TCS, HDFC, TCS" gave ["TCS", "HDFC"]
C6_Witness ==
    /\ Cleaned
    /\ symbols_input = Join(<< ",", " " >>, << TCS, HDFC, TCS >>)
    /\ clean_symbol_list = << TCS, HDFC >>

IsCanonicalSymbol(x) ==
    /\ x # << >>
    /\ Upper(x) = x
    /\ \A i \in DOMAIN x : x[i] \notin { ",", ";", "\n" } \cup Whitespace
    /\ ~StartsWith(x, NSE_PREFIX)

\* C5: every element clean_symbols returns is a CanonicalSymbol: uppercase,
\* not empty, without separator or whitespace, not beginning with "NSE:".
C5_AllCanonical ==
    Cleaned => \A i \in DOMAIN clean_symbol_list : IsCanonicalSymbol(clean_symbol_list[i])

\* C4: clean_symbols of the comma-joined output of clean_symbols is that output
\* (the output being clean_symbols of the raw text).
C4_Idempotent ==
    pc = "recleaned" => renormalized = clean_symbol_list

\* what a mapping holds, whatever its insertion order
Industries(m) == { m[i].industry : i \in DOMAIN m }
Members(m, industry) == { m[i].symbol : i \in { j \in DOMAIN m : m[j].industry = industry } }
FirstAt(m, industry) ==
    CHOOSE i \in DOMAIN m :
        /\ m[i].industry = industry
        /\ \A j \in DOMAIN m : m[j].industry = industry => i <= j

\* group a is listed before group b: it is larger, or as large and seen first
ListedBefore(m, a, b) ==
    \/ Cardinality(Members(m, a)) > Cardinality(Members(m, b))
    \/ /\ Cardinality(Members(m, a)) = Cardinality(Members(m, b))
       /\ FirstAt(m, a) < FirstAt(m, b)

GroupAt(m, k) ==
    CHOOSE a \in Industries(m) :
        Cardinality({ b \in Industries(m) : ListedBefore(m, b, a) }) = k - 1

\* the strings of S in ascending order
Ascending(S) ==
    [ k \in 1..Cardinality(S) |->
        CHOOSE x \in S : Cardinality({ y \in S : StrLess(y, x) }) = k - 1 ]

\* the comma-separated fields of the grouped text, for the first k groups
RECURSIVE GroupedFields(_, _)
GroupedFields(m, k) ==
    IF k = 0 THEN << >>
    ELSE LET industry == GroupAt(m, k)
             members == Ascending(Members(m, industry))
         IN  GroupedFields(m, k - 1)
                 \o << << "#", "#", "#" >> \o industry \o << "(" >>
                           \o IntToStr(Cardinality(Members(m, industry))) \o << ")" >> >>
                 \o [ i \in DOMAIN members |-> NSE_PREFIX \o members[i] ]

\* C7: the grouped text is, comma-joined, one group per distinct industry, larger
\* groups first and equal-size groups in the order their industries first
\* appear; a group is ###<Industry>(<count>), count the number of its members,
\* then its members ascending, each behind NSE:; every symbol is listed once,
\* under its industry; the empty mapping gives the empty text.
C7_GroupedFormat ==
    pc \in { "grouped", "formatted" } =>
        IF mapped_symbols = << >>
        THEN categorized_output = << >>
        ELSE Split(categorized_output, ",")
                 = GroupedFields(mapped_symbols, Cardinality(Industries(mapped_symbols)))

\* HDFC (Banks) entered first, the two IT symbols after it: IT is listed first
C7_Witness ==
    /\ pc = "grouped"
    /\ mapped_symbols = << Row(HDFC, Banks), Row(TCS, IT), Row(INFY, IT) >>
    /\ categorized_output =
           Join(COMMA, << << "#", "#", "#" >> \o IT \o << "(", "2", ")" >>,
                          NSE_PREFIX \o INFY, NSE_PREFIX \o TCS,
                          << "#", "#", "#" >> \o Banks \o << "(", "1", ")" >>,
                          NSE_PREFIX \o HDFC >>)

\* the mappings with the entries of m, in every insertion order
Reorderings(m) ==
    { [ i \in DOMAIN m |-> m[f[i]] ] :
        f \in { g \in [ DOMAIN m -> DOMAIN m ] : \A i, j \in DOMAIN m : g[i] = g[j] => i = j } }

\* C8 as stated: both texts are the same for every insertion order of the entries.
C8_OrderIndependent ==
    pc = "formatted" =>
        \A p \in Reorderings(mapped_symbols) :
            /\ format_tv_output(p) = categorized_output
            /\ format_flat_output(p) = flat_output

\* the industries of equal size first appear in p in the order they do in m
SameTieOrder(p, m) ==
    \A a, b \in Industries(m) :
        Cardinality(Members(m, a)) = Cardinality(Members(m, b)) =>
            (FirstAt(p, a) < FirstAt(p, b) <=> FirstAt(m, a) < FirstAt(m, b))

\* C8 amended: the flat text is the same for every insertion order; the grouped
\* text is the same exactly for the insertion orders in which the industries of
\* equal size first appear in the same relative order (so for every insertion
\* order when no two industries have the same number of symbols).
C8_OrderIndependentUpToTies ==
    pc = "formatted" =>
        \A p \in Reorderings(mapped_symbols) :
            /\ format_flat_output(p) = flat_output
            /\ format_tv_output(p) = categorized_output <=> SameTieOrder(p, mapped_symbols)

\* three entries, two industries of different sizes, both texts produced
C8_Witness ==
    /\ pc = "formatted"
    /\ Len(mapped_symbols) = 3
    /\ Cardinality(Industries(mapped_symbols)) = 2
    /\ flat_output # NoText

\* C9: get_fundamentals_data returns, once each, exactly the rows of the table
\* whose uppercased key is among the uppercased requested symbols, raises
\* nothing, and returns the empty frame when no row matches.
C9_FundamentalsFilter ==
    pc = "joined" =>
        LET table == dataset.results_csv
            requested == { Upper(symbol_list[i]) : i \in DOMAIN symbol_list }
            wanted == { k \in DOMAIN table : Upper(table[k].name) \in requested }
        IN  /\ error = NoError
            /\ { fundamentals_df[i].index : i \in DOMAIN fundamentals_df } = wanted
            /\ Len(fundamentals_df) = Cardinality(wanted)
            /\ \A i \in DOMAIN fundamentals_df :
                   fundamentals_df[i].Symbol = Upper(table[fundamentals_df[i].index].name)
            /\ wanted = {} => fundamentals_df = NoList

\* TCS, WIPRO and XYZ asked of a table with rows for TCS, infy and WIPRO
C9_Witness ==
    /\ pc = "joined"
    /\ dataset.results_csv = ResultsB
    /\ symbol_list = << TCS, WIPRO, XYZ >>
    /\ Len(fundamentals_df) = 2

=============================================================================
